---- MODULE Spec2Model ----
(***************************************************************************)
(* ebisu-bench (src/ebisu_bench.py): import the review history of an Anki  *)
(* deck and replay it through ebisu's belief engine.                       *)
(*                                                                         *)
(* The model follows main(): for every card id, get_review_log folds the   *)
(* raw revlog rows into sessions, EbisuCard.emulate folds the sessions     *)
(* into a model, the card is counted and (verbose) reported, and at the    *)
(* end the summary line is printed.  The ebisu library is external: its    *)
(* models and results are kept as uninterpreted terms that record the      *)
(* call that produced them.                                                *)
(***************************************************************************)
EXTENDS Integers, Sequences, FiniteSets, Bags, TLC

VARIABLES
    verbose,        \* args.verbose
    card_ids,       \* main: the list returned by get_all_card_ids
    ci,             \* main: number of card ids the for loop has taken
    pc,             \* main: position of the control flow
    rows,           \* get_review_log: the bag of rows the cursor has yielded
    reviews,        \* get_review_log: the defaultdict(list)
    review_log,     \* the sorted list returned by get_review_log
    idx,            \* emulate: position of the for loop in review_log
    current,        \* emulate: the ebisu model
    last_review,    \* emulate: None or the last review time
    card,           \* the value returned by emulate: None or an EbisuCard
    total_cards,    \* main
    total_reviews,  \* main
    calls,          \* the updateRecall calls made for the current card
    answers,        \* the set of recall_at / recall_when calls and results
    printed,        \* the card ids main printed a line for
    summary,        \* None or the values of the summary line
    passed_cards,   \* the number of cards so far whose log has a pass
    dt,             \* fuzzy_delta: the argument dt
    raw,            \* fuzzy_delta: the argument raw
    fuzzy,          \* fuzzy_delta: None or the value returned
    workers         \* concurrent emulate calls: the locals of each call

\* the variables that main() on a deck leaves alone
aside == <<dt, raw, fuzzy, workers>>

vars == <<verbose, card_ids, ci, pc, rows, reviews, review_log, idx, current,
          last_review, card, total_cards, total_reviews, calls, answers,
          printed, summary, passed_cards, aside>>

----------------------------------------------------------------------------
(* Bounds of the model *)

MaxCards == 2       \* at most this many rows in the cards table
MaxRows == 3        \* at most this many revlog rows per card
MaxTick == 3        \* raw timestamps are 0, TickMs, ..., MaxTick * TickMs
MaxNow == 2         \* the clock reads 0..MaxNow seconds
MaxQueries == 2     \* distinct direct queries on one finished card
MaxPeriods == 3     \* fuzzy_delta is tried around 0..MaxPeriods whole units
MaxSessions == 2    \* sessions per log when emulate calls run concurrently

(* Program constants *)

TickMs == 700               \* spacing of the raw millisecond timestamps
MsPerSecond == 1000         \* timestamp //= 1000
AgainButton == 1            \* button != 1
HalfLife == 10 * 60         \* ebisu.defaultModel(10 * 60)
DefaultPercentile == 50     \* recall_when(percentile=0.50), in percent
ReportPercentile == 85      \* card.recall_when(0.85), in percent

Buttons == 1..4             \* 1 = again, 2 = hard, 3 = good, 4 = easy
TimestampsMs == {k * TickMs : k \in 0..MaxTick}
Clock == 0..MaxNow
Percentiles == {DefaultPercentile, ReportPercentile}

(* Python's None, and a value that is not None *)
None == <<>>
Some(x) == <<x>>
Val(o) == o[1]

----------------------------------------------------------------------------
(* get_review_log *)

\* timestamp //= 1000 (Python's // and TLA+'s \div both round down)
NormalizeRounded(timestamp) == (timestamp + 500) \div MsPerSecond
Normalize(timestamp) == timestamp \div MsPerSecond

\* passed = (button != 1)
PassedGood(button) == button > 2
Passed(button) == button # AgainButton

\* reviews[timestamp].append(passed) on a defaultdict(list)
DictAppendOverwrite(d, k, v) ==
    [x \in DOMAIN d \cup {k} |-> IF x = k THEN <<v>> ELSE d[x]]
DictAppend(d, k, v) ==
    [x \in DOMAIN d \cup {k} |->
        IF x = k THEN (IF k \in DOMAIN d THEN Append(d[k], v) ELSE <<v>>)
        ELSE d[x]]

\* the smallest key of a non-empty set of integer keys
MinKey(S) == CHOOSE k \in S : \A j \in S : k <= j

\* sorted(reviews.items()): the (key, value) pairs in ascending key order
RECURSIVE ItemsFrom(_, _)
ItemsFrom(d, keys) ==
    IF keys = {} THEN <<>>
    ELSE LET k == MinKey(keys)
         IN  <<<<k, d[k]>>>> \o ItemsFrom(d, keys \ {k})

MaxKey(S) == CHOOSE k \in S : \A j \in S : k >= j

RECURSIVE ItemsDescending(_, _)
ItemsDescending(d, keys) ==
    IF keys = {} THEN <<>>
    ELSE LET k == MaxKey(keys)
         IN  <<<<k, d[k]>>>> \o ItemsDescending(d, keys \ {k})

SortedItemsDescending(d) == ItemsDescending(d, DOMAIN d)
SortedItems(d) == ItemsFrom(d, DOMAIN d)

----------------------------------------------------------------------------
(* The ebisu library, as uninterpreted terms *)

\* ebisu.defaultModel(t): the prior, no update applied yet
defaultModel(t) == [prior |-> t, updates |-> <<>>]

\* ebisu.updateRecall(prior, successes, total, tnow): the posterior
updateRecall(model, successes, total, tnow) ==
    [model EXCEPT !.updates = Append(@, <<successes, total, tnow>>)]

\* ebisu.predictRecall(prior, tnow, exact): the value it returns
predictRecall(model, tnow, exact) ==
    [fn |-> "predictRecall", model |-> model, args |-> <<tnow, exact>>]

\* ebisu.modelToPercentileDecay(model, percentile): the value it returns
modelToPercentileDecay(model, percentile) ==
    [fn |-> "modelToPercentileDecay", model |-> model, args |-> <<percentile>>]

\* the record of one call into ebisu
Call(fn, model, args) == [fn |-> fn, model |-> model, args |-> args]

----------------------------------------------------------------------------
(* EbisuCard.emulate *)

\* any(trials), sum(trials), len(trials) of a list of booleans
any(trials) == \E i \in 1..Len(trials) : trials[i]

RECURSIVE sum(_)
sum(trials) ==
    IF trials = <<>> THEN 0
    ELSE (IF trials[1] THEN 1 ELSE 0) + sum(Tail(trials))

\* One iteration of "for timestamp, trials in review_log": the new values of
\* current and last_review, and the updateRecall call it made (if any).
EmulateIterAnchorUpdates(cur, last, timestamp, trials) ==
    IF last = None
    THEN IF any(trials)
         THEN [current |-> updateRecall(cur, sum(trials), Len(trials), 0),
               last_review |-> Some(timestamp),
               call |-> <<Call("updateRecall", cur,
                               <<sum(trials), Len(trials), 0>>)>>]
         ELSE [current |-> cur, last_review |-> None, call |-> <<>>]
    ELSE LET tnow == timestamp - Val(last)
         IN  [current |-> updateRecall(cur, sum(trials), Len(trials), tnow),
              last_review |-> Some(timestamp),
              call |-> <<Call("updateRecall", cur,
                              <<sum(trials), Len(trials), tnow>>)>>]

EmulateIterAnchorAny(cur, last, timestamp, trials) ==
    IF last = None
    THEN [current |-> cur, last_review |-> Some(timestamp), call |-> <<>>]
    ELSE LET tnow == timestamp - Val(last)
         IN  [current |-> updateRecall(cur, sum(trials), Len(trials), tnow),
              last_review |-> Some(timestamp),
              call |-> <<Call("updateRecall", cur,
                              <<sum(trials), Len(trials), tnow>>)>>]

EmulateIterLastSuccess(cur, last, timestamp, trials) ==
    IF last = None
    THEN [current |-> cur,
          last_review |-> IF any(trials) THEN Some(timestamp) ELSE None,
          call |-> <<>>]
    ELSE LET tnow == timestamp - Val(last)
         IN  [current |-> updateRecall(cur, sum(trials), Len(trials), tnow),
              last_review |-> IF any(trials) THEN Some(timestamp) ELSE last,
              call |-> <<Call("updateRecall", cur,
                              <<sum(trials), Len(trials), tnow>>)>>]

EmulateIterForgetOnFail(cur, last, timestamp, trials) ==
    IF last = None
    THEN [current |-> cur,
          last_review |-> IF any(trials) THEN Some(timestamp) ELSE None,
          call |-> <<>>]
    ELSE LET tnow == timestamp - Val(last)
         IN  [current |-> updateRecall(cur, sum(trials), Len(trials), tnow),
              last_review |-> IF any(trials) THEN Some(timestamp) ELSE None,
              call |-> <<Call("updateRecall", cur,
                              <<sum(trials), Len(trials), tnow>>)>>]

EmulateIter(cur, last, timestamp, trials) ==
    IF last = None
    THEN \* if any(trials): last_review = timestamp; continue
         [current |-> cur,
          last_review |-> IF any(trials) THEN Some(timestamp) ELSE None,
          call |-> <<>>]
    ELSE LET tnow == timestamp - Val(last)
         IN  [current |-> updateRecall(cur, sum(trials), Len(trials), tnow),
              last_review |-> Some(timestamp),
              call |-> <<Call("updateRecall", cur,
                              <<sum(trials), Len(trials), tnow>>)>>]

\* a log with a session that contains a pass
HasPass(log) == \E i \in 1..Len(log) : any(log[i][2])

EmulateResultFromAnchor(card_id, log, cur, last) ==
    IF last = None THEN None
    ELSE Some([card_id |-> card_id, model |-> cur,
               review_log |-> IF any(log[1][2]) THEN log ELSE Tail(log),
               last_review |-> Val(last)])

\* What emulate returns after the loop: None, or the filled card
EmulateResult(card_id, log, cur, last) ==
    IF last = None THEN None
    ELSE Some([card_id |-> card_id, model |-> cur, review_log |-> log,
               last_review |-> Val(last)])

----------------------------------------------------------------------------
(* EbisuCard.recall_at and EbisuCard.recall_when *)

\* if tnow is None: tnow = int(datetime.datetime.utcnow().timestamp())
\* now is the clock reading, in whole seconds
RecallAtTime(tnow, now) == IF tnow = None THEN now ELSE Val(tnow)

\* return ebisu.predictRecall(self.model, tnow, exact=True)
recall_at(self, tnow, now) ==
    predictRecall(self.model, RecallAtTime(tnow, now), TRUE)

\* return ebisu.modelToPercentileDecay(self.model, percentile)
recall_when(self, percentile) == modelToPercentileDecay(self.model, percentile)

\* The card after a query: neither method assigns to an attribute of self.
SelfAfterQueryCaching(self, t) == [self EXCEPT !.last_review = @ + t]
SelfAfterQuery(self, t) == self

\* What a query leaves in answers: its argument, the clock reading it took
\* (if any) and the value ebisu returned.
AtAnswer(self, tnow, now) ==
    [fn |-> "recall_at", arg |-> tnow,
     now |-> IF tnow = None THEN Some(now) ELSE None,
     result |-> recall_at(self, tnow, now)]
WhenAnswer(self, percentile) ==
    [fn |-> "recall_when", arg |-> Some(percentile), now |-> None,
     result |-> recall_when(self, percentile)]

----------------------------------------------------------------------------
(* The state after extract_db, open_db and get_all_card_ids *)

Init ==
    /\ verbose \in BOOLEAN
    /\ \E n \in 0..MaxCards : card_ids = [i \in 1..n |-> i]
    /\ ci = 0
    /\ pc = "loop"
    /\ rows = EmptyBag
    /\ reviews = <<>>
    /\ review_log = <<>>
    /\ idx = 0
    /\ current = None
    /\ last_review = None
    /\ card = None
    /\ total_cards = 0
    /\ total_reviews = 0
    /\ calls = <<>>
    /\ answers = {}
    /\ printed = <<>>
    /\ summary = None
    /\ passed_cards = 0
    /\ dt = 0
    /\ raw = FALSE
    /\ fuzzy = None
    /\ workers = <<>>

\* main: "for card_id in card_ids" takes the next id and calls get_review_log
MainNextCard ==
    /\ pc = "loop"
    /\ ci < Len(card_ids)
    /\ ci' = ci + 1
    /\ pc' = "get_review_log"
    /\ rows' = EmptyBag
    /\ reviews' = <<>>
    /\ review_log' = <<>>
    /\ idx' = 0
    /\ current' = None
    /\ last_review' = None
    /\ card' = None
    /\ calls' = <<>>
    /\ answers' = {}
    /\ UNCHANGED <<verbose, card_ids, total_cards, total_reviews, printed,
                   summary,
                   passed_cards, aside>>

\* get_review_log: one iteration of "for timestamp, button in rows"
FetchRow ==
    /\ pc = "get_review_log"
    /\ BagCardinality(rows) < MaxRows
    /\ \E timestamp \in TimestampsMs, button \in Buttons :
          /\ rows' = rows (+) SetToBag({<<timestamp, button>>})
          /\ reviews' = DictAppend(reviews, Normalize(timestamp),
                                   Passed(button))
    /\ UNCHANGED <<verbose, card_ids, ci, pc, review_log, idx, current,
                   last_review, card, total_cards, total_reviews, calls,
                   answers, printed, summary,
                   passed_cards, aside>>

\* get_review_log: the cursor is exhausted, return sorted(reviews.items());
\* the locals of get_review_log are gone after the return
ReturnLog ==
    /\ pc = "get_review_log"
    /\ review_log' = SortedItems(reviews)
    /\ passed_cards' = passed_cards + (IF HasPass(SortedItems(reviews))
                                       THEN 1 ELSE 0)
    /\ rows' = EmptyBag
    /\ reviews' = <<>>
    /\ pc' = "emulate"
    /\ UNCHANGED <<verbose, card_ids, ci, idx, current, last_review, card,
                   total_cards, total_reviews, calls, answers, printed,
                   summary,
                   aside>>

\* emulate: current = ebisu.defaultModel(10 * 60); last_review = None
EmulateBegin ==
    /\ pc = "emulate"
    /\ current' = Some(defaultModel(HalfLife))
    /\ last_review' = None
    /\ idx' = 1
    /\ pc' = "fold"
    /\ UNCHANGED <<verbose, card_ids, ci, rows, reviews, review_log, card,
                   total_cards, total_reviews, calls, answers, printed,
                   summary,
                   passed_cards, aside>>

EmulateStepRetry ==
    /\ pc = "fold"
    /\ idx <= Len(review_log)
    /\ LET r == EmulateIter(Val(current), last_review,
                            review_log[idx][1], review_log[idx][2])
       IN  /\ current' = Some(r.current)
           /\ last_review' = r.last_review
           /\ calls' = calls \o r.call
           /\ idx' = IF r.last_review = None THEN idx ELSE idx + 1
    /\ UNCHANGED <<verbose, card_ids, ci, pc, rows, reviews, review_log, card,
                   total_cards, total_reviews, answers, printed, summary,
                   passed_cards, aside>>

\* emulate: one iteration of "for timestamp, trials in review_log"
EmulateStep ==
    /\ pc = "fold"
    /\ idx <= Len(review_log)
    /\ LET r == EmulateIter(Val(current), last_review,
                            review_log[idx][1], review_log[idx][2])
       IN  /\ current' = Some(r.current)
           /\ last_review' = r.last_review
           /\ calls' = calls \o r.call
    /\ idx' = idx + 1
    /\ UNCHANGED <<verbose, card_ids, ci, pc, rows, reviews, review_log, card,
                   total_cards, total_reviews, answers, printed,
                   summary,
                   passed_cards, aside>>

\* emulate: the loop is over, return None or the card; the locals of
\* emulate are gone after the return
EmulateReturn ==
    /\ pc = "fold"
    /\ idx > Len(review_log)
    /\ card' = EmulateResult(card_ids[ci], review_log, Val(current),
                             last_review)
    /\ idx' = 0
    /\ current' = None
    /\ last_review' = None
    /\ pc' = "emulated"
    /\ UNCHANGED <<verbose, card_ids, ci, rows, reviews, review_log,
                   total_cards, total_reviews, calls, answers, printed,
                   summary,
                   passed_cards, aside>>

\* A holder of the finished card calls card.recall_at(), with or without tnow
RecallAt ==
    /\ pc = "emulated"
    /\ card # None
    /\ Cardinality(answers) < MaxQueries
    /\ \E tnow \in {None} \cup {Some(t) : t \in Clock}, now \in Clock :
          /\ answers' = answers \cup {AtAnswer(Val(card), tnow, now)}
          /\ card' = Some(SelfAfterQuery(Val(card), RecallAtTime(tnow, now)))
    /\ UNCHANGED <<verbose, card_ids, ci, pc, rows, reviews, review_log, idx,
                   current, last_review, total_cards, total_reviews, calls,
                   printed, summary,
                   passed_cards, aside>>

\* A holder of the finished card calls card.recall_when(percentile)
RecallWhen ==
    /\ pc = "emulated"
    /\ card # None
    /\ Cardinality(answers) < MaxQueries
    /\ \E percentile \in Percentiles :
          /\ answers' = answers \cup {WhenAnswer(Val(card), percentile)}
          /\ card' = Some(SelfAfterQuery(Val(card), percentile))
    /\ UNCHANGED <<verbose, card_ids, ci, pc, rows, reviews, review_log, idx,
                   current, last_review, total_cards, total_reviews, calls,
                   printed, summary,
                   passed_cards, aside>>

MainSkipCounting ==
    /\ pc = "emulated"
    /\ card = None
    /\ pc' = "loop"
    /\ total_cards' = total_cards + 1
    /\ UNCHANGED <<verbose, card_ids, ci, rows, reviews, review_log, idx,
                   current, last_review, card, total_reviews, calls, answers,
                   printed, summary, passed_cards, aside>>

\* main: "if card is None: continue"
MainSkip ==
    /\ pc = "emulated"
    /\ card = None
    /\ pc' = "loop"
    /\ UNCHANGED <<verbose, card_ids, ci, rows, reviews, review_log, idx,
                   current, last_review, card, total_cards, total_reviews,
                   calls, answers, printed, summary,
                   passed_cards, aside>>

\* main: total_cards += 1; total_reviews += len(review_log) - 1
\* (the "." written to stderr every 100 cards is not modelled)
MainCount ==
    /\ pc = "emulated"
    /\ card # None
    /\ total_cards' = total_cards + 1
    /\ total_reviews' = total_reviews + (Len(review_log) - 1)
    /\ pc' = IF verbose THEN "report" ELSE "loop"
    /\ UNCHANGED <<verbose, card_ids, ci, rows, reviews, review_log, idx,
                   current, last_review, card, calls, answers, printed,
                   summary,
                   passed_cards, aside>>

\* main, verbose: tnow = utcnow().timestamp() - card.last_review, then the
\* line with card.recall_at(tnow=tnow) and card.recall_when(0.85)
MainReport ==
    /\ pc = "report"
    /\ \E now \in Clock :
          LET tnow == Some(now - Val(card).last_review)
              c1 == SelfAfterQuery(Val(card), Val(tnow))
              c2 == SelfAfterQuery(c1, ReportPercentile)
          IN  /\ answers' = answers \cup {AtAnswer(Val(card), tnow, now),
                                          WhenAnswer(c1, ReportPercentile)}
              /\ card' = Some(c2)
    /\ printed' = Append(printed, card_ids[ci])
    /\ pc' = "loop"
    /\ UNCHANGED <<verbose, card_ids, ci, rows, reviews, review_log, idx,
                   current, last_review, total_cards, total_reviews, calls,
                   summary,
                   passed_cards, aside>>

\* main: the summary line; total_reviews / total_cards raises
\* ZeroDivisionError when total_cards is 0.  Either way main is left and
\* its per-card locals are gone.
MainSummary ==
    /\ pc = "loop"
    /\ ci = Len(card_ids)
    /\ IF total_cards = 0
       THEN /\ pc' = "ZeroDivisionError"
            /\ summary' = summary
       ELSE /\ pc' = "done"
            /\ summary' = Some([cards |-> total_cards,
                                reviews |-> total_reviews,
                                average |-> <<total_reviews, total_cards>>])
    /\ review_log' = <<>>
    /\ card' = None
    /\ calls' = <<>>
    /\ answers' = {}
    /\ UNCHANGED <<verbose, card_ids, ci, rows, reviews, idx, current,
                   last_review, total_cards, total_reviews, printed,
                   passed_cards, aside>>

\* main() on a deck
Next ==
    \/ MainNextCard
    \/ FetchRow
    \/ ReturnLog
    \/ EmulateBegin
    \/ EmulateStep
    \/ EmulateReturn
    \/ MainSkip
    \/ MainCount
    \/ MainReport
    \/ MainSummary

Spec == Init /\ [][Next]_vars

\* main() on a deck, where the loop of emulate, being sequential code, goes
\* on to its next iteration and then to the return
SpecLive == Spec /\ WF_vars(EmulateStep) /\ WF_vars(EmulateReturn)

\* main() on a deck of one card, with a holder of the finished card calling
\* its query methods directly
InitQuery == Init /\ card_ids = <<1>>

NextQuery ==
    \/ Next
    \/ RecallAt
    \/ RecallWhen

SpecQuery == InitQuery /\ [][NextQuery]_vars

----------------------------------------------------------------------------
(* fuzzy_delta *)

\* units = [("year", 60 * 60 * 24 * 365), ..., ("second", 1)]
units == <<[name |-> "year", interval |-> 60 * 60 * 24 * 365],
           [name |-> "month", interval |-> 60 * 60 * 24 * 30],
           [name |-> "week", interval |-> 60 * 60 * 24 * 7],
           [name |-> "day", interval |-> 60 * 60 * 24],
           [name |-> "hour", interval |-> 60 * 60],
           [name |-> "minute", interval |-> 60],
           [name |-> "second", interval |-> 1]>>

\* abs(dt)
Abs(n) == IF n < 0 THEN 0 - n ELSE n

\* if abs(dt) < 2 * interval and interval != 1: continue
SkippedBelowOne(d, i) ==
    Abs(d) < units[i].interval /\ units[i].interval # 1
Skipped(d, i) ==
    Abs(d) < 2 * units[i].interval /\ units[i].interval # 1

\* the unit at which the loop breaks, for dt # 0
UnitOf(d) ==
    units[CHOOSE i \in 1..Len(units) :
            /\ ~Skipped(d, i)
            /\ \A j \in 1..(i - 1) : Skipped(d, j)]

\* "about %d %s%s" % (periods, name, "s" if periods > 1 else ""), in words
About(d) ==
    LET u == UnitOf(d)
        periods == Abs(d) \div u.interval
    IN  <<"about", ToString(periods),
          u.name \o (IF periods > 1 THEN "s" ELSE "")>>

\* fuzzy_delta(dt, raw), the returned string as its sequence of words
fuzzy_delta(d, r) ==
    IF d = 0 THEN <<"now">>
    ELSE IF r THEN About(d)
    ELSE IF d > 0 THEN <<"in">> \o About(d)
    ELSE About(d) \o <<"ago">>

\* the values of dt tried: around the whole multiples of every interval, in
\* both directions, and the two calls of the documentation
DtValues ==
    {sign * (m * units[i].interval + e) :
        sign \in {-1, 1}, i \in 1..Len(units), m \in 0..MaxPeriods,
        e \in -1..1}
    \cup {3700, -90000}

\* fuzzy_delta is about to be called with some dt and raw
InitFuzzy ==
    /\ verbose = FALSE
    /\ card_ids = <<>>
    /\ ci = 0
    /\ pc = "fuzzy_delta"
    /\ rows = EmptyBag
    /\ reviews = <<>>
    /\ review_log = <<>>
    /\ idx = 0
    /\ current = None
    /\ last_review = None
    /\ card = None
    /\ total_cards = 0
    /\ total_reviews = 0
    /\ calls = <<>>
    /\ answers = {}
    /\ printed = <<>>
    /\ summary = None
    /\ passed_cards = 0
    /\ dt \in DtValues
    /\ raw \in BOOLEAN
    /\ fuzzy = None
    /\ workers = <<>>

\* the call of fuzzy_delta returns
FuzzyDelta ==
    /\ pc = "fuzzy_delta"
    /\ fuzzy' = Some(fuzzy_delta(dt, raw))
    /\ pc' = "fuzzy_done"
    /\ UNCHANGED <<verbose, card_ids, ci, rows, reviews, review_log, idx,
                   current, last_review, card, total_cards, total_reviews,
                   calls, answers, printed, summary, passed_cards, dt, raw,
                   workers>>

NextFuzzy == FuzzyDelta

SpecFuzzy == InitFuzzy /\ [][NextFuzzy]_vars

----------------------------------------------------------------------------
(* Several emulate calls at once, one per card, their loops interleaved.   *)
(* The list given to a call is revealed session by session as its loop     *)
(* reads it.                                                               *)

\* the sessions a log may continue with: strictly later, one trial
NextSessions(log) ==
    {<<t, <<passed>>>> :
        t \in (IF log = <<>> THEN {0}
               ELSE {log[Len(log)][1] + gap : gap \in {1, 2}}),
        passed \in BOOLEAN}

\* current and last_review are locals of the call: each call has its own
LocalsShared(ws, w) == [ws[w] EXCEPT !.current = ws[1].current]
Locals(ws, w) == ws[w]

\* emulate has been called for every card
InitWorkers ==
    /\ verbose = FALSE
    /\ card_ids = [i \in 1..MaxCards |-> i]
    /\ ci = 0
    /\ pc = "workers"
    /\ rows = EmptyBag
    /\ reviews = <<>>
    /\ review_log = <<>>
    /\ idx = 0
    /\ current = None
    /\ last_review = None
    /\ card = None
    /\ total_cards = 0
    /\ total_reviews = 0
    /\ calls = <<>>
    /\ answers = {}
    /\ printed = <<>>
    /\ summary = None
    /\ passed_cards = 0
    /\ dt = 0
    /\ raw = FALSE
    /\ fuzzy = None
    /\ workers = [w \in 1..MaxCards |->
                    [log |-> <<>>,
                     current |-> defaultModel(HalfLife),
                     last_review |-> None,
                     calls |-> <<>>,
                     returned |-> FALSE,
                     card |-> None]]

\* one iteration of the loop of the call for card w
WorkerStep(w) ==
    /\ pc = "workers"
    /\ ~workers[w].returned
    /\ Len(workers[w].log) < MaxSessions
    /\ \E session \in NextSessions(workers[w].log) :
          LET l == Locals(workers, w)
              r == EmulateIter(l.current, l.last_review,
                               session[1], session[2])
          IN  workers' = [workers EXCEPT
                             ![w].log = Append(@, session),
                             ![w].current = r.current,
                             ![w].last_review = r.last_review,
                             ![w].calls = @ \o r.call]
    /\ UNCHANGED <<verbose, card_ids, ci, pc, rows, reviews, review_log, idx,
                   current, last_review, card, total_cards, total_reviews,
                   calls, answers, printed, summary, passed_cards, dt, raw,
                   fuzzy>>

\* the loop of the call for card w is over and the call returns
WorkerReturn(w) ==
    /\ pc = "workers"
    /\ ~workers[w].returned
    /\ LET l == Locals(workers, w)
       IN  workers' = [workers EXCEPT
                          ![w].returned = TRUE,
                          ![w].card = EmulateResult(card_ids[w], l.log,
                                                    l.current, l.last_review)]
    /\ UNCHANGED <<verbose, card_ids, ci, pc, rows, reviews, review_log, idx,
                   current, last_review, card, total_cards, total_reviews,
                   calls, answers, printed, summary, passed_cards, dt, raw,
                   fuzzy>>

NextWorkers ==
    \E w \in 1..MaxCards :
        \/ WorkerStep(w)
        \/ WorkerReturn(w)

SpecWorkers == InitWorkers /\ [][NextWorkers]_vars

----------------------------------------------------------------------------
(* Helpers of the properties *)

\* the position of the anchor: the first session with a pass, 0 if none
AnchorIndex(log) ==
    IF HasPass(log)
    THEN CHOOSE i \in 1..Len(log) :
            /\ any(log[i][2])
            /\ \A j \in 1..(i - 1) : ~any(log[j][2])
    ELSE 0

\* the number of rows of a bag whose timestamp lies in second k
RowsInSecond(b, k) ==
    BagCardinality([r \in {x \in DOMAIN b : x[1] \div 1000 = k} |-> b[r]])

\* the number of those rows whose button is not "again"
PassesInSecond(b, k) ==
    BagCardinality([r \in {x \in DOMAIN b : x[1] \div 1000 = k /\ x[2] # 1}
                       |-> b[r]])

\* the sessions of a log whose time is k
SessionsAt(log, k) == {i \in 1..Len(log) : log[i][1] = k}

\* the step in which get_review_log returns
GetReviewLogReturns == pc = "get_review_log" /\ pc' = "emulate"

----------------------------------------------------------------------------
(* Properties of EbisuCard.emulate *)

\* C1: emulate makes no updateRecall call for the sessions before the anchor
\* nor for the anchor itself: at every point of the fold the number of calls
\* is the number of consumed sessions strictly after the anchor, and when the
\* anchor is the last session the returned model is the prior
\* defaultModel(600).
NoUpdateBeforeAnchor ==
    LET a == AnchorIndex(review_log)
    IN  /\ pc = "fold" =>
              /\ Len(calls) = IF a = 0 \/ idx - 1 <= a THEN 0
                              ELSE (idx - 1) - a
              /\ Len(Val(current).updates) = Len(calls)
        /\ pc = "emulated" =>
              /\ Len(calls) = IF a = 0 THEN 0 ELSE Len(review_log) - a
              /\ card # None => Len(Val(card).model.updates) = Len(calls)
              /\ (card # None /\ a = Len(review_log)) =>
                    Val(card).model = [prior |-> 600, updates |-> <<>>]

\* C1 witness: a log of three sessions whose anchor is the second one has
\* been emulated with a single update
AnchorInTheMiddle ==
    /\ pc = "emulated"
    /\ card # None
    /\ Len(review_log) = 3
    /\ AnchorIndex(review_log) = 2
    /\ Len(calls) = 1

\* C2: emulate returns None exactly for the logs in which no session has a
\* pass (the empty log included), and a filled card for every other log.
NoneIffNeverPassed ==
    pc = "emulated" =>
        /\ card = None <=> ~HasPass(review_log)
        /\ card # None =>
              /\ Val(card).card_id = card_ids[ci]
              /\ Val(card).model.prior = 600
              /\ Val(card).last_review \in Int

\* C2 witness: a log of two failed sessions has been emulated to None
FailedLogGivesNone ==
    /\ pc = "emulated"
    /\ card = None
    /\ Len(review_log) = 2

\* C3: the last_review of a returned card is the time of the last session of
\* the log, whether that session passed or failed.
LastReviewIsLastSession ==
    (pc = "emulated" /\ card # None) =>
        Val(card).last_review = review_log[Len(review_log)][1]

\* C3 witness: a card whose last session has no passing trial
LastSessionFailed ==
    /\ pc = "emulated"
    /\ card # None
    /\ Len(review_log) >= 2
    /\ ~any(review_log[Len(review_log)][2])

----------------------------------------------------------------------------
(* Properties of get_review_log *)

\* C4: when get_review_log returns, every second in which a raw row lies has
\* exactly one session, whose number of trials is the number of rows of that
\* second and whose number of passes is the number of passing rows among
\* them; no session exists for another second, so no row is lost or counted
\* twice.
MergesSameTimestamp ==
    [][GetReviewLogReturns =>
          /\ \A r \in DOMAIN rows :
                LET k == r[1] \div 1000
                IN  /\ Cardinality(SessionsAt(review_log', k)) = 1
                    /\ \A i \in SessionsAt(review_log', k) :
                          /\ Len(review_log'[i][2]) = RowsInSecond(rows, k)
                          /\ sum(review_log'[i][2]) = PassesInSecond(rows, k)
          /\ \A i \in 1..Len(review_log') :
                \E r \in DOMAIN rows : r[1] \div 1000 = review_log'[i][1]
    ]_vars

\* C4 witness: a returned session of three trials, two of them passes
ThreeTrialsTwoPasses ==
    /\ pc = "emulate"
    /\ \E i \in 1..Len(review_log) :
          /\ Len(review_log[i][2]) = 3
          /\ sum(review_log[i][2]) = 2

\* C5: the list returned by get_review_log is strictly ascending by session
\* time (so each time occurs once) and no session has an empty trial list,
\* in whatever order the rows were read.
StrictlyAscending ==
    /\ \A i, j \in 1..Len(review_log) :
          i < j => review_log[i][1] < review_log[j][1]
    /\ \A i \in 1..Len(review_log) : Len(review_log[i][2]) >= 1

\* C5 witness: a returned list of three sessions
ThreeSessions ==
    /\ pc = "emulate"
    /\ Len(review_log) = 3

\* C6: the key under which a row is grouped is floor(timestamp / 1000): the
\* keys of reviews are exactly the seconds k with a row in
\* [1000 k, 1000 (k + 1)), and the rows of one second share one list.
NormalizesToSeconds ==
    pc = "get_review_log" =>
        /\ \A r \in DOMAIN rows :
              \E k \in DOMAIN reviews :
                 /\ 1000 * k <= r[1]
                 /\ r[1] < 1000 * (k + 1)
        /\ \A k \in DOMAIN reviews :
              /\ \E r \in DOMAIN rows :
                    1000 * k <= r[1] /\ r[1] < 1000 * (k + 1)
              /\ Len(reviews[k]) = RowsInSecond(rows, k)

\* C6 witness: two rows with different millisecond timestamps of the same
\* second have been put in one list
TwoMillisecondsOneSession ==
    /\ pc = "get_review_log"
    /\ \E r1, r2 \in DOMAIN rows :
          /\ r1[1] # r2[1]
          /\ r1[1] \div 1000 = r2[1] \div 1000
          /\ Len(reviews[r1[1] \div 1000]) = 2

\* C7: a row is a fail exactly when its button is 1: in every list of
\* reviews the number of fails is the number of rows of that second with
\* button 1, and the number of passes the number with button 2, 3 or 4.
FailIffAgain ==
    pc = "get_review_log" =>
        \A k \in DOMAIN reviews :
            /\ sum(reviews[k]) = PassesInSecond(rows, k)
            /\ Len(reviews[k]) - sum(reviews[k]) =
                  RowsInSecond(rows, k) - PassesInSecond(rows, k)

\* C7 witness: a second with one row of button 1 and one row of button 2,
\* grouped as one fail and one pass
AgainAndHard ==
    /\ pc = "get_review_log"
    /\ \E r1, r2 \in DOMAIN rows :
          /\ r1[2] = 1
          /\ r2[2] = 2
          /\ r1[1] \div 1000 = r2[1] \div 1000
          /\ Len(reviews[r1[1] \div 1000]) = 2
          /\ sum(reviews[r1[1] \div 1000]) = 1

----------------------------------------------------------------------------
(* Properties of recall_at and recall_when *)

\* C8: a recall_at call without tnow passes "now minus last_review" of the
\* card to predictRecall, in exact mode.
RecallAtDefaultsToElapsed ==
    card # None =>
        \A a \in answers :
            (a.fn = "recall_at" /\ a.arg = None) =>
                a.result.args = <<Val(a.now) - Val(card).last_review, TRUE>>

\* the step of a query on the card
QueryStep == answers' # answers /\ answers' # {}

\* C9 as stated: a query leaves the card as it was, and any two calls of the
\* same query with the same arguments returned the same value.
QueriesRepeatable ==
    [][QueryStep =>
          /\ card' = card
          /\ review_log' = review_log
          /\ \A a, b \in answers' :
                (a.fn = b.fn /\ a.arg = b.arg) => a.result = b.result
    ]_vars

\* C9 as amended: a query leaves the card (model, last_review, review_log) as
\* it was, and any two calls of recall_when with the same percentile, or of
\* recall_at with the same supplied tnow, returned the same value.
QueriesReadOnly ==
    [][QueryStep =>
          /\ card' = card
          /\ review_log' = review_log
          /\ \A a, b \in answers' :
                (a.fn = b.fn /\ a.arg = b.arg /\ a.arg # None) =>
                    a.result = b.result
    ]_vars

\* C9 witness: the report of main has repeated a recall_at(tnow) and a
\* recall_when(0.85) that were already made on the card
QueriedTwice ==
    /\ pc = "loop"
    /\ card # None
    /\ printed # <<>>
    /\ Cardinality(answers) = 2
    /\ \E a, b \in answers :
          /\ a.fn = "recall_at" /\ a.arg # None
          /\ b.fn = "recall_when" /\ b.arg = Some(85)

----------------------------------------------------------------------------
(* Properties of main *)

\* C10: a run in which no card is imported ends with the summary line
\* reporting 0 cards and 0 reviews, and does not raise.
ZeroCardRunCompletes ==
    (pc \in {"done", "ZeroDivisionError"} /\ total_cards = 0) =>
        /\ pc = "done"
        /\ summary # None
        /\ Val(summary).cards = 0
        /\ Val(summary).reviews = 0

\* C11: a card whose emulation returned None goes back to the head of the
\* loop without raising, adds nothing to total_cards and total_reviews and
\* prints no line; after the loop total_cards is the number of cards whose
\* log has a session with a pass.
NoResultIsExcluded ==
    /\ [][(pc = "emulated" /\ card = None /\ pc' # pc) =>
             /\ pc' = "loop"
             /\ total_cards' = total_cards
             /\ total_reviews' = total_reviews
             /\ printed' = printed]_vars
    /\ []((pc = "loop" /\ ci = Len(card_ids)) => total_cards = passed_cards)

\* C11 witness: the loop is over two cards, one of which had no result
OneOfTwoExcluded ==
    /\ pc = "loop"
    /\ ci = 2
    /\ Len(card_ids) = 2
    /\ total_cards = 1
    /\ passed_cards = 1

\* C12: a card returned by emulate carries the card_id and the session list
\* that emulate was given, the sessions before the anchor included, and the
\* replay leaves that list as it was.
CardCarriesWholeLog ==
    [][/\ pc \in {"emulate", "fold"} => review_log' = review_log
       /\ (pc = "fold" /\ pc' = "emulated" /\ card' # None) =>
             /\ Val(card').card_id = card_ids[ci]
             /\ Val(card').review_log = review_log
    ]_vars

\* C12 witness: a returned card whose log of three sessions starts with a
\* failed session
CardWithSessionBeforeAnchor ==
    /\ pc = "emulated"
    /\ card # None
    /\ Len(Val(card).review_log) = 3
    /\ ~any(Val(card).review_log[1][2])

----------------------------------------------------------------------------
(* Properties of fuzzy_delta *)

\* the words of a returned string without the "in" and "ago" around them
Core(words) ==
    IF words[1] = "in" THEN Tail(words)
    ELSE IF words[Len(words)] = "ago" THEN SubSeq(words, 1, Len(words) - 1)
    ELSE words

\* the words for n whole units of the i-th unit
Wording(i, n) ==
    <<"about", ToString(n),
      IF n > 1 THEN units[i].name \o "s" ELSE units[i].name>>

\* C13: fuzzy_delta(3700, raw=True) starts with "about 1 hour", and
\* fuzzy_delta(-90000) ends with "ago" and reports a number of days.
DocumentedExamples ==
    fuzzy # None =>
        /\ (dt = 3700 /\ raw) =>
              /\ Val(fuzzy)[1] = "about"
              /\ Val(fuzzy)[2] = "1"
              /\ Val(fuzzy)[3] \in {"hour", "hours"}
        /\ (dt = -90000 /\ ~raw) =>
              /\ Val(fuzzy)[Len(Val(fuzzy))] = "ago"
              /\ Val(fuzzy)[3] \in {"day", "days"}

----------------------------------------------------------------------------
(* Further properties of EbisuCard.emulate *)

\* the number of passing trials of a session
Passes(trials) == Cardinality({i \in 1..Len(trials) : trials[i]})

\* C15: the j-th updateRecall call is the one of the j-th session after the
\* anchor: successes is its number of passing trials, total its number of
\* trials, elapsed its time minus the time of the session just before it, and
\* the model passed is the one the calls before it produced; once the fold is
\* over there is one call for every session after the anchor.
UpdatesFollowSessions ==
    pc \in {"fold", "emulated"} =>
        LET a == AnchorIndex(review_log)
        IN  /\ \A j \in 1..Len(calls) :
                  /\ a >= 1
                  /\ a + j <= Len(review_log)
                  /\ calls[j].fn = "updateRecall"
                  /\ calls[j].args =
                        <<Passes(review_log[a + j][2]),
                          Len(review_log[a + j][2]),
                          review_log[a + j][1] - review_log[a + j - 1][1]>>
                  /\ calls[j].model.prior = 600
                  /\ calls[j].model.updates =
                        [n \in 1..(j - 1) |-> calls[n].args]
            /\ (pc = "emulated" /\ a >= 1) =>
                  Len(calls) = Len(review_log) - a

\* C15 witness: a pass, then a failed session, then a third session whose
\* elapsed time is counted from the failed one
ElapsedSinceFailedSession ==
    /\ pc = "emulated"
    /\ Len(review_log) = 3
    /\ any(review_log[1][2])
    /\ ~any(review_log[2][2])
    /\ Len(calls) = 2
    /\ calls[2].args[3] = review_log[3][1] - review_log[2][1]

\* C16: every updateRecall call of the replay of a log returned by
\* get_review_log has total >= 1, 0 <= successes <= total and a strictly
\* positive elapsed time.
UpdateArgumentsValid ==
    \A j \in 1..Len(calls) :
        /\ calls[j].args[2] >= 1
        /\ 0 <= calls[j].args[1]
        /\ calls[j].args[1] <= calls[j].args[2]
        /\ calls[j].args[3] > 0

\* C16 witness: an update for a merged session of two trials, one of them a
\* pass, one second after the session before it
UpdateOfMergedSession ==
    /\ pc = "emulated"
    /\ \E j \in 1..Len(calls) : calls[j].args = <<1, 2, 1>>

\* C17: at every point of the fold last_review is defined exactly when one of
\* the sessions consumed so far has a pass; once defined it stays defined,
\* and every later session makes it strictly greater.
AwaitingThenTracking ==
    /\ [](pc = "fold" =>
             (last_review # None <=>
                 HasPass(SubSeq(review_log, 1, idx - 1))))
    /\ [][(pc = "fold" /\ pc' = "fold" /\ last_review # None) =>
             /\ last_review' # None
             /\ Val(last_review') > Val(last_review)]_vars

\* C17 witness: the fold has consumed a failed session, then the anchor,
\* then a failed session, and last_review is the time of the last one
TrackingAfterFailedSession ==
    /\ pc = "fold"
    /\ idx = 4
    /\ ~any(review_log[1][2])
    /\ any(review_log[2][2])
    /\ ~any(review_log[3][2])
    /\ last_review = Some(review_log[3][1])

----------------------------------------------------------------------------
(* Further properties of main *)

\* C18: what main adds to total_reviews for an imported card is the number
\* of updateRecall calls that the emulation of the card made.
ReviewsCountUpdates ==
    [][(pc = "emulated" /\ card # None /\ pc' # pc) =>
          total_reviews' - total_reviews = Len(calls)]_vars

----------------------------------------------------------------------------
(* Properties of concurrent emulate calls *)

\* emulate run alone on the first n sessions of a log
RECURSIVE FoldAlone(_, _)
FoldAlone(log, n) ==
    IF n = 0
    THEN [current |-> [prior |-> 600, updates |-> <<>>],
          last_review |-> None, calls |-> <<>>]
    ELSE LET p == FoldAlone(log, n - 1)
             r == EmulateIter(p.current, p.last_review, log[n][1], log[n][2])
         IN  [current |-> r.current, last_review |-> r.last_review,
              calls |-> p.calls \o r.call]

\* C19: however the loops of the calls are interleaved, every call makes the
\* updates, has the last_review and returns the card or None that emulate
\* alone makes, has and returns on its log.
CardsAreIndependent ==
    pc = "workers" =>
        \A w \in DOMAIN workers :
            LET alone == FoldAlone(workers[w].log, Len(workers[w].log))
            IN  /\ workers[w].calls = alone.calls
                /\ workers[w].current = alone.current
                /\ workers[w].last_review = alone.last_review
                /\ workers[w].returned =>
                      workers[w].card =
                          EmulateResult(w, workers[w].log, alone.current,
                                        alone.last_review)

\* C19 witness: two calls are both in their loops, each has made an update,
\* and their logs differ
InterleavedFolds ==
    /\ pc = "workers"
    /\ ~workers[1].returned
    /\ ~workers[2].returned
    /\ Len(workers[1].calls) = 1
    /\ Len(workers[2].calls) = 1
    /\ workers[1].calls # workers[2].calls

----------------------------------------------------------------------------
(* Termination of EbisuCard.emulate *)

\* C20 as stated, its bound on the updates: when emulate returns it has made
\* at most len(review_log) - 1 updates.
AtMostLenMinusOneUpdates ==
    pc = "emulated" => Len(calls) <= Len(review_log) - 1

\* C20 as amended: every iteration of the fold moves on to the next session
\* and leaves the log alone, the fold returns a card or None once the last
\* session is consumed, having made at most len(review_log) - 1 updates for a
\* non-empty log and none for the empty log, and every fold that has begun
\* returns.
SinglePassTerminates ==
    /\ [][(pc = "fold" /\ pc' = "fold") =>
             /\ idx' = idx + 1
             /\ review_log' = review_log]_vars
    /\ [][(pc = "fold" /\ pc' = "emulated") =>
             /\ idx = Len(review_log) + 1
             /\ \/ card' = None
                \/ Val(card').review_log = review_log]_vars
    /\ [](pc \in {"fold", "emulated"} =>
             /\ Len(review_log) >= 1 => Len(calls) <= Len(review_log) - 1
             /\ Len(review_log) = 0 => Len(calls) = 0)
    /\ [](pc = "fold" => idx \in 1..(Len(review_log) + 1))
    /\ (pc = "fold") ~> (pc = "emulated")

\* C20 witness: the fold of a log of three sessions has returned after two
\* updates
ThreeSessionsTwoUpdates ==
    /\ pc = "emulated"
    /\ Len(review_log) = 3
    /\ Len(calls) = 2

====
